---- MODULE Spec2Model ----
(***************************************************************************)
(* Model of package excel_exporter (src/exporter.go, src/row.go): the      *)
(* Exporter orchestrator, its two writer variants (memory / StreamWriter), *)
(* the sheet-overflow logic of exportHelper and the channel-backed row     *)
(* producer UseRowChan.  The excelize document is modelled as the sink the *)
(* exporter calls into: a list of sheets, per-sheet cell content, and      *)
(* append cursors (StreamWriter) whose rows reach the sheet on Flush.      *)
(***************************************************************************)
EXTENDS Integers, Sequences, FiniteSets, TLC

(***************************************************************************)
(* Bounds of the model.                                                    *)
(***************************************************************************)
\* Rows per sheet in the model (the program's SheetMaxRows is 1048576).
Cap == 2
\* Longest data row (number of cells) a producer script holds.
MaxCells == 2
\* Pulls the free consumer of the adapter specification performs.
MaxPulls == 4

(***************************************************************************)
(* Values: slices, cells, rows.                                            *)
(***************************************************************************)
\* const SheetMaxRows
SheetMaxRows == Cap

\* A Go slice: the nil slice and an allocated slice of length 0 differ.
NilSlice == [isNil |-> TRUE, elems |-> <<>>]
MakeSlice(s) == [isNil |-> FALSE, elems |-> s]
SliceLen(sl) == Len(sl.elems)

\* excelize.Cell{Value: v}
Cell(v) == [StyleID |-> 0, Formula |-> "", Value |-> v]

\* The zero value Row{}.
ZeroRow == [Cells |-> NilSlice, MergeCells |-> NilSlice, RowOpts |-> NilSlice]

\* func NewRow(cellValues ...interface{}) Row
NewRow(cellValues) ==
    [Cells      |-> MakeSlice([j \in 1..Len(cellValues) |-> Cell(cellValues[j])]),
     MergeCells |-> NilSlice,
     RowOpts    |-> NilSlice]

(***************************************************************************)
(* Formatting: fmt.Sprintf("%s_%d", ...) and CoordinatesToCellName.        *)
(***************************************************************************)
Digit(d) ==
    CASE d = 0 -> "0" [] d = 1 -> "1" [] d = 2 -> "2" [] d = 3 -> "3"
      [] d = 4 -> "4" [] d = 5 -> "5" [] d = 6 -> "6" [] d = 7 -> "7"
      [] d = 8 -> "8" [] d = 9 -> "9"

RECURSIVE Itoa(_)
Itoa(n) == IF n < 10 THEN Digit(n) ELSE Itoa(n \div 10) \o Digit(n % 10)

\* Faulty variant of OverflowName: the suffix is not taken from the counter.
OverflowNameFixed(base, suffix) == base \o "_" \o Itoa(1)
\* fmt.Sprintf("%s_%d", sheet.Name, sheetSuffix)
OverflowName(base, suffix) == base \o "_" \o Itoa(suffix)

\* Column letters of the first columns (excelize.ColumnNumberToName).
ColumnName(col) ==
    CASE col = 1 -> "A" [] col = 2 -> "B" [] col = 3 -> "C" [] col = 4 -> "D"

\* excelize.CoordinatesToCellName(col, row)
CoordinatesToCellName(col, row) == ColumnName(col) \o Itoa(row)

(***************************************************************************)
(* State.                                                                  *)
(***************************************************************************)
VARIABLES
    useStreamWriter, \* Exporter.UseStreamWriter
    sheets,          \* the []SheetData given to Export
    pc,              \* position of Export / of the consumer
    si,              \* index of the sheet definition in progress (1-based)
    rowID,           \* exportHelper: rowID
    sheetSuffix,     \* exportHelper: sheetSuffix
    CurrentSheet,    \* Exporter.CurrentSheet
    StreamWriter,    \* Exporter.StreamWriter: index into cursors, 0 = nil
    row,             \* exportHelper: the row pulled last
    result,          \* what Export returned: "none", "ok", "err"
    sheetList,       \* the document: names of its sheets, in order
    content,         \* the document: sheet name -> cells and merges
    cursors,         \* every StreamWriter acquired from the document
    saved,           \* the file written by SaveAs
    calls,           \* the calls Export made into the sink and its writers
    sinkFailed,      \* the sink call that was rejected, "" when none
    err,             \* the error Export returned, <<>> for nil
    pos,             \* direct producers: calls made so far
    started,         \* adapters: times the background task was started
    ch,              \* adapters: the handoff channel dataCh
    task,            \* adapters: the background task
    sent,            \* adapters: rows whose send has completed
    pulled           \* per definition: rows RowFunc has returned

vars == <<useStreamWriter, sheets, pc, si, rowID, sheetSuffix, CurrentSheet,
          StreamWriter, row, result, sheetList, content, cursors, saved,
          calls, sinkFailed, err, pos, started, ch, task, sent, pulled>>

orchVars == <<si, rowID, sheetSuffix, CurrentSheet, StreamWriter, row, result>>
sinkVars == <<sheetList, content, cursors, saved, calls, sinkFailed, err>>
chanVars == <<started, ch, task, sent>>
inputVars == <<useStreamWriter, sheets>>

(***************************************************************************)
(* Producer scripts: what a RowDataFunc returns call after call, or what   *)
(* the callback given to UseRowChan sends.                                 *)
(***************************************************************************)
MaxRows == 2 * Cap + 1

\* The k-th data row of definition d: one to MaxCells cells, all naming the row.
DataRow(d, k) == NewRow([j \in 1..(1 + (k % MaxCells)) |-> 10 * d + k])

\* The title row the test's callback sends first: three cells, all with the
\* title style (a handle NewStyle returned, > 0) and no formula, one merged
\* range and row options.
TitleRow ==
    [Cells      |-> MakeSlice(<<[StyleID |-> 1, Formula |-> "", Value |-> "MergedTitle 1"],
                                [StyleID |-> 1, Formula |-> "", Value |-> ""],
                                [StyleID |-> 1, Formula |-> "", Value |-> "MergedTitle 2"]>>),
     MergeCells |-> MakeSlice(<<[TopLeftCell |-> "A1", BottomRightCell |-> "B1"]>>),
     RowOpts    |-> MakeSlice(<<[Height |-> 20, StyleID |-> 1]>>)]

\* A Row using every field a writer reads: a styled cell, an unstyled cell
\* with a formula, one merged range and row options.
FormulaRow ==
    [Cells      |-> MakeSlice(<<[StyleID |-> 1, Formula |-> "", Value |-> 1],
                                [StyleID |-> 0, Formula |-> "=A1", Value |-> 2]>>),
     MergeCells |-> MakeSlice(<<[TopLeftCell |-> "A1", BottomRightCell |-> "B1"]>>),
     RowOpts    |-> MakeSlice(<<[Height |-> 20, StyleID |-> 1]>>)]

PlainScript(d, n) == [k \in 1..n |-> DataRow(d, k)]

WithSpecial(d, n, p, r) == [k \in 1..n |-> IF k = p THEN r ELSE DataRow(d, k)]

Scripts1 ==
    {PlainScript(1, n) : n \in 0..MaxRows}
      \cup {WithSpecial(1, MaxRows, p, r) :
              p \in 1..MaxRows, r \in {ZeroRow, NewRow(<<>>)}}
      \cup {WithSpecial(1, 2, 1, r) : r \in {TitleRow, FormulaRow}}

Scripts2 == {PlainScript(2, n) : n \in 0..1}

Kinds == {"func", "chan"}

SheetData(name, kind, script) == [Name |-> name, kind |-> kind, script |-> script]

SheetLists ==
    {<<>>}
      \cup {<<SheetData(n, k, s)>> : n \in {"A", "Sheet1"}, k \in Kinds, s \in Scripts1}
      \cup {<<SheetData("A", k1, s1), SheetData(n2, k2, s2)>> :
              k1 \in Kinds, s1 \in Scripts1, n2 \in {"B", "A_1"},
              k2 \in Kinds, s2 \in Scripts2}

(***************************************************************************)
(* The sink (excelize.File and excelize.StreamWriter as the exporter uses  *)
(* them).                                                                  *)
(***************************************************************************)
NoCells == [n \in {} |-> Cell(0)]
EmptySheet == [cells |-> NoCells, merges |-> <<>>]

SeqToSet(s) == {s[k] : k \in DOMAIN s}

\* File.SheetCount
SheetCount == Len(sheetList)

\* File.NewSheet(name): an existing name is kept as it is.
NewSheetList(name) ==
    IF name \in SeqToSet(sheetList) THEN sheetList ELSE Append(sheetList, name)

NewSheetContent(name) ==
    IF name \in DOMAIN content THEN content
    ELSE [n \in DOMAIN content \cup {name} |->
            IF n = name THEN EmptySheet ELSE content[n]]

\* File.DeleteSheet(name)
DeleteSheetList(name) == SelectSeq(sheetList, LAMBDA n : n # name)

DeleteSheetContent(name) == [n \in DOMAIN content \ {name} |-> content[n]]

\* One cell-level call of the memory writer.
SinkOp(op, sheet, cell, arg) == [op |-> op, sheet |-> sheet, cell |-> cell, arg |-> arg]

\* File.SetCellValue / SetCellStyle / SetCellFormula / MergeCell on one sheet.
ApplyCellOp(sh, o) ==
    IF o.op = "MergeCell"
    THEN [sh EXCEPT !.merges = Append(@, o.arg)]
    ELSE LET old == IF o.cell \in DOMAIN sh.cells THEN sh.cells[o.cell] ELSE Cell(0)
             new == CASE o.op = "SetCellValue"   -> [old EXCEPT !.Value = o.arg]
                      [] o.op = "SetCellStyle"   -> [old EXCEPT !.StyleID = o.arg]
                      [] o.op = "SetCellFormula" -> [old EXCEPT !.Formula = o.arg]
         IN  [sh EXCEPT !.cells =
                [c \in DOMAIN sh.cells \cup {o.cell} |->
                    IF c = o.cell THEN new ELSE sh.cells[c]]]

RECURSIVE ApplyOps(_, _, _)
ApplyOps(sh, ops, n) ==
    IF n = 0 THEN sh ELSE ApplyCellOp(ApplyOps(sh, ops, n - 1), ops[n])

(***************************************************************************)
(* The two writers: what one writeRowFunc call asks of the sink.           *)
(***************************************************************************)
\* Faulty variant of OpsOfCell: the style is set whatever the handle.
OpsOfCellAlwaysStyle(sheetName, rID, j, cell) ==
    LET cellName == CoordinatesToCellName(j, rID)
    IN  <<SinkOp("SetCellValue", sheetName, cellName, cell.Value),
          SinkOp("SetCellStyle", sheetName, cellName, cell.StyleID)>>
          \o (IF cell.Formula # ""
              THEN <<SinkOp("SetCellFormula", sheetName, cellName, cell.Formula)>>
              ELSE <<>>)
\* exportUsingMemory.writeRowFunc, the body of the loop over row.Cells.
OpsOfCell(sheetName, rID, j, cell) ==
    LET cellName == CoordinatesToCellName(j, rID)
    IN  <<SinkOp("SetCellValue", sheetName, cellName, cell.Value)>>
          \o (IF cell.StyleID > 0
              THEN <<SinkOp("SetCellStyle", sheetName, cellName, cell.StyleID)>>
              ELSE <<>>)
          \o (IF cell.Formula # ""
              THEN <<SinkOp("SetCellFormula", sheetName, cellName, cell.Formula)>>
              ELSE <<>>)

RECURSIVE CellsOps(_, _, _, _)
CellsOps(sheetName, rID, cells, n) ==
    IF n = 0 THEN <<>>
    ELSE CellsOps(sheetName, rID, cells, n - 1) \o OpsOfCell(sheetName, rID, n, cells[n])

MergeOps(sheetName, merges) ==
    [k \in 1..Len(merges) |-> SinkOp("MergeCell", sheetName, "", merges[k])]

\* exportUsingMemory.writeRowFunc: the sink calls of one row, in order.
MemRowOps(sheetName, rID, r) ==
    CellsOps(sheetName, rID, r.Cells.elems, SliceLen(r.Cells))
      \o MergeOps(sheetName, r.MergeCells.elems)

\* exportUsingStreamWriter.writeRowFunc: SetRow, then the merges.
StreamRowOps(sheetName, rID, r) ==
    <<SinkOp("SetRow", sheetName, CoordinatesToCellName(1, rID),
             [rowID |-> rID, cells |-> r.Cells.elems, opts |-> r.RowOpts.elems])>>
      \o MergeOps(sheetName, r.MergeCells.elems)

\* A StreamWriter as File.NewStreamWriter returns it.
NewCursor(sheetName) ==
    [sheet |-> sheetName, cells |-> NoCells, merges |-> <<>>, rows |-> {},
     opts |-> {}, flushed |-> FALSE]

\* StreamWriter.SetRow / StreamWriter.MergeCell on the cursor's buffer.
ApplyStreamOp(cur, o) ==
    IF o.op = "MergeCell"
    THEN [cur EXCEPT !.merges = Append(@, o.arg)]
    ELSE LET n == Len(o.arg.cells)
             names == {CoordinatesToCellName(j, o.arg.rowID) : j \in 1..n}
             at(c) == CHOOSE j \in 1..n : CoordinatesToCellName(j, o.arg.rowID) = c
         IN  [cur EXCEPT
                !.cells = [c \in DOMAIN cur.cells \cup names |->
                             IF c \in names THEN o.arg.cells[at(c)] ELSE cur.cells[c]],
                !.rows = @ \cup {o.arg.rowID},
                !.opts = @ \cup {<<o.arg.rowID, o.arg.opts>>}]

RECURSIVE ApplyStreamOps(_, _, _)
ApplyStreamOps(cur, ops, n) ==
    IF n = 0 THEN cur ELSE ApplyStreamOp(ApplyStreamOps(cur, ops, n - 1), ops[n])

\* StreamWriter.Flush: the buffered rows become the sheet of the document.
FlushInto(cont, cur) ==
    IF cur.sheet \in DOMAIN cont
    THEN [cont EXCEPT ![cur.sheet] = [cells |-> cur.cells, merges |-> cur.merges]]
    ELSE cont

\* One entry of the call log: the call, the sheet definition Export was at,
\* the arguments and whether the sink accepted it.
Call(op, sheet, rID, r, ok) ==
    [op |-> op, def |-> si, sheet |-> sheet, rowID |-> rID, row |-> r, ok |-> ok]

(***************************************************************************)
(* Initial state: New(fileName, useStreamWriter), excelize.NewFile() and   *)
(* the arguments of Export.                                                *)
(***************************************************************************)
NoChan == [made |-> FALSE, closed |-> FALSE, offer |-> <<>>]
NoTask == [pc |-> "none", idx |-> 1, failed |-> FALSE]

InitCommon ==
    /\ si = 1
    /\ rowID = 0
    /\ sheetSuffix = 0
    /\ CurrentSheet = ""
    /\ StreamWriter = 0
    /\ row = ZeroRow
    /\ result = "none"
    /\ sheetList = <<"Sheet1">>
    /\ content = [n \in {"Sheet1"} |-> EmptySheet]
    /\ cursors = <<>>
    /\ saved = [done |-> FALSE, sheetList |-> <<>>, content |-> [n \in {} |-> EmptySheet]]
    /\ calls = <<>>
    /\ sinkFailed = ""
    /\ err = <<>>
    /\ pos = [i \in DOMAIN sheets |-> 0]
    /\ started = [i \in DOMAIN sheets |-> 0]
    /\ ch = [i \in DOMAIN sheets |-> NoChan]
    /\ task = [i \in DOMAIN sheets |-> NoTask]
    /\ sent = [i \in DOMAIN sheets |-> <<>>]
    /\ pulled = [i \in DOMAIN sheets |-> <<>>]

Init ==
    /\ useStreamWriter \in BOOLEAN
    /\ sheets \in SheetLists
    /\ pc = IF Len(sheets) = 0 THEN "save" ELSE "newSheet"
    /\ InitCommon

(***************************************************************************)
(* The channel-backed producer, UseRowChan.                                *)
(***************************************************************************)
\* Faulty variant of OnceDo: no once guard, every pull starts a task.
OnceDoRestarts(i) ==
    /\ started' = [started EXCEPT ![i] = @ + 1]
    /\ ch' = [ch EXCEPT ![i] = [made |-> TRUE, closed |-> FALSE, offer |-> <<>>]]
    /\ task' = [task EXCEPT ![i] = [pc |-> "run", idx |-> 1, failed |-> FALSE]]
\* once.Do(func() { dataCh = make(chan Row); go func() {...}() })
OnceDo(i) ==
    IF started[i] = 0
    THEN /\ started' = [started EXCEPT ![i] = 1]
         /\ ch' = [ch EXCEPT ![i] = [made |-> TRUE, closed |-> FALSE, offer |-> <<>>]]
         /\ task' = [task EXCEPT ![i] = [pc |-> "run", idx |-> 1, failed |-> FALSE]]
    ELSE UNCHANGED <<started, ch, task>>

\* Faulty variant of TakeOffer: the received row is lost.
TakeOfferDropsRow(i, r) ==
    /\ ch[i].offer # <<>>
    /\ r = ZeroRow
    /\ ch' = [ch EXCEPT ![i].offer = <<>>]
    /\ task' = [task EXCEPT ![i] = [@ EXCEPT !.pc = "run", !.idx = @ + 1]]
    /\ sent' = [sent EXCEPT ![i] = Append(@, ch[i].offer[1])]
\* row, ok := <-dataCh, with a sender waiting: the send completes.
TakeOffer(i, r) ==
    /\ ch[i].offer # <<>>
    /\ r = ch[i].offer[1]
    /\ ch' = [ch EXCEPT ![i].offer = <<>>]
    /\ task' = [task EXCEPT ![i] = [@ EXCEPT !.pc = "run", !.idx = @ + 1]]
    /\ sent' = [sent EXCEPT ![i] = Append(@, r)]

\* Faulty variant of TakeClosed: Row{} is returned once; a later receive
\* waits, as on a nil channel.
TakeClosedOnce(i, r) ==
    /\ ch[i].offer = <<>>
    /\ ch[i].closed
    /\ Len(pulled[i]) = Len(sent[i])
    /\ r = ZeroRow
    /\ UNCHANGED <<ch, task, sent>>
\* row, ok := <-dataCh on the closed channel: if !ok { return Row{} }
TakeClosed(i, r) ==
    /\ ch[i].offer = <<>>
    /\ ch[i].closed
    /\ r = ZeroRow
    /\ UNCHANGED <<ch, task, sent>>

\* The receive of the adapter: r is the row the pull returns.
Receive(i, r) == TakeOffer(i, r) \/ TakeClosed(i, r)

\* The rows the receive can return now.
Receivable(i) ==
    IF ch[i].offer # <<>> THEN {ch[i].offer[1], ZeroRow} ELSE {ZeroRow}

\* Faulty variant of TaskSend: the channel has a buffer, the send completes
\* with no receiver.
TaskSendBuffered(i) ==
    /\ task[i].pc = "run"
    /\ task[i].idx <= Len(sheets[i].script)
    /\ ch' = [ch EXCEPT ![i].offer = Append(@, sheets[i].script[task[i].idx])]
    /\ task' = [task EXCEPT ![i].idx = @ + 1]
    /\ sent' = [sent EXCEPT ![i] = Append(@, sheets[i].script[task[i].idx])]
    /\ UNCHANGED started
\* The background task reaches dataCh <- row and waits for the receiver.
TaskSend(i) ==
    /\ task[i].pc = "run"
    /\ task[i].idx <= Len(sheets[i].script)
    /\ ch' = [ch EXCEPT ![i].offer = <<sheets[i].script[task[i].idx]>>]
    /\ task' = [task EXCEPT ![i].pc = "blocked"]
    /\ UNCHANGED <<started, sent>>

\* Faulty variant of TaskReturn: the channel is not closed.
TaskReturnNoClose(i) ==
    /\ task[i].pc = "run"
    /\ task[i].idx > Len(sheets[i].script)
    /\ task' = [task EXCEPT ![i].pc = "done"]
    /\ UNCHANGED <<started, sent, ch>>
\* sendDataFunc returns: defer close(dataCh).
TaskReturn(i) ==
    /\ task[i].pc = "run"
    /\ task[i].idx > Len(sheets[i].script)
    /\ ch' = [ch EXCEPT ![i].closed = TRUE]
    /\ task' = [task EXCEPT ![i].pc = "done"]
    /\ UNCHANGED <<started, sent>>

\* sendDataFunc gives up before it has sent all its rows (its data source
\* failed): it can only return, and the deferred close(dataCh) runs.
TaskFail(i) ==
    /\ task[i].pc = "run"
    /\ task[i].idx <= Len(sheets[i].script)
    /\ ch' = [ch EXCEPT ![i].closed = TRUE]
    /\ task' = [task EXCEPT ![i] = [@ EXCEPT !.pc = "done", !.failed = TRUE]]
    /\ UNCHANGED <<started, sent>>

TaskSendStep ==
    /\ \E i \in DOMAIN sheets : TaskSend(i)
    /\ UNCHANGED <<inputVars, pc, orchVars, sinkVars, pos, pulled>>

TaskReturnStep ==
    /\ \E i \in DOMAIN sheets : TaskReturn(i)
    /\ UNCHANGED <<inputVars, pc, orchVars, sinkVars, pos, pulled>>

TaskFailStep ==
    /\ \E i \in DOMAIN sheets : TaskFail(i)
    /\ UNCHANGED <<inputVars, pc, orchVars, sinkVars, pos, pulled>>

(***************************************************************************)
(* Export and exportHelper.                                                *)
(***************************************************************************)
\* The error of a rejected sink call: one part, the sink's own message.
SinkError(op) == <<"sink: " \o op>>

\* fmt.Errorf(prefix + "%w", e): the prefix put before the wrapped error.
Errorf(prefix, e) == <<prefix>> \o e

\* The error Export returns for a rejected call: NewSheet (lines 57, 174) and
\* DeleteSheet (line 63) errors are wrapped, every other one is returned as
\* the sink gave it (lines 69, 73, 78, 157, 179, 184).
ExportError(op) ==
    CASE op = "NewSheet" -> Errorf("failed to create a new sheet: ", SinkError(op))
      [] op = "DeleteSheet" -> Errorf("failed to delete default sheet: ", SinkError(op))
      [] OTHER -> SinkError(op)

\* A rejected sink call: Export returns the error.
Fail(op) ==
    /\ pc' = "done"
    /\ result' = "err"
    /\ sinkFailed' = op
    /\ err' = ExportError(op)

\* Faulty variant of DeleteDefaultDue: not only for the first definition.
DeleteDefaultDueAnySheet(count) == count > 1
\* Export, line 61: if i == 0 && e.File.SheetCount > 1
DeleteDefaultDue(count) == si = 1 /\ count > 1

\* Export, line 56: e.File.NewSheet(sheet.Name); line 61 decides the next step.
NewSheetStep ==
    /\ pc = "newSheet"
    /\ LET name == sheets[si].Name
       IN  \E ok \in BOOLEAN :
             /\ calls' = Append(calls, Call("NewSheet", name, 0, ZeroRow, ok))
             /\ IF ok
                THEN /\ sheetList' = NewSheetList(name)
                     /\ content' = NewSheetContent(name)
                     /\ pc' = IF DeleteDefaultDue(SheetCount')
                              THEN "deleteDefault" ELSE "init"
                     /\ UNCHANGED <<result, sinkFailed, err>>
                ELSE /\ Fail("NewSheet")
                     /\ UNCHANGED <<sheetList, content>>
    /\ UNCHANGED <<inputVars, si, rowID, sheetSuffix, CurrentSheet, StreamWriter,
                   row, cursors, saved, pos, chanVars, pulled>>

\* Export, line 62: e.File.DeleteSheet("Sheet1").
DeleteDefaultStep ==
    /\ pc = "deleteDefault"
    /\ \E ok \in BOOLEAN :
         /\ calls' = Append(calls, Call("DeleteSheet", "Sheet1", 0, ZeroRow, ok))
         /\ IF ok
            THEN /\ sheetList' = DeleteSheetList("Sheet1")
                 /\ content' = DeleteSheetContent("Sheet1")
                 /\ pc' = "init"
                 /\ UNCHANGED <<result, sinkFailed, err>>
            ELSE /\ Fail("DeleteSheet")
                 /\ UNCHANGED <<sheetList, content>>
    /\ UNCHANGED <<inputVars, si, rowID, sheetSuffix, CurrentSheet, StreamWriter,
                   row, cursors, saved, pos, chanVars, pulled>>

\* initFunc(sheetName) of the writer in use; next is the step after success.
InitFunc(sheetName, next) ==
    IF useStreamWriter
    THEN \E ok \in BOOLEAN :
           /\ calls' = Append(calls, Call("NewStreamWriter", sheetName, 0, ZeroRow, ok))
           /\ IF ok
              THEN /\ cursors' = Append(cursors, NewCursor(sheetName))
                   /\ StreamWriter' = Len(cursors) + 1
                   /\ pc' = next
                   /\ UNCHANGED <<result, sinkFailed, err>>
              ELSE /\ StreamWriter' = 0
                   /\ Fail("NewStreamWriter")
                   /\ UNCHANGED cursors
    ELSE /\ pc' = next
         /\ UNCHANGED <<calls, cursors, StreamWriter, result, sinkFailed, err>>

\* exportHelper, lines 153-159.
InitStep ==
    /\ pc = "init"
    /\ rowID' = 1
    /\ sheetSuffix' = 0
    /\ CurrentSheet' = sheets[si].Name
    /\ InitFunc(sheets[si].Name, "pull")
    /\ UNCHANGED <<inputVars, si, row, sheetList, content, saved, pos, chanVars, pulled>>

\* Faulty variant of AfterRow: a full sheet ends the definition.
AfterRowEndsAtCapacity(r) ==
    IF r.Cells.isNil \/ rowID > SheetMaxRows THEN "finish" ELSE "writeRow"
\* Faulty variant of AfterRow: the capacity test is >= instead of >.
AfterRowOffByOne(r) ==
    IF r.Cells.isNil THEN "finish"
    ELSE IF rowID >= SheetMaxRows THEN "overflow" ELSE "writeRow"
\* exportHelper, lines 163-167: where the loop goes with the row pulled.
AfterRow(r) ==
    IF r.Cells.isNil THEN "finish"
    ELSE IF rowID > SheetMaxRows THEN "overflow" ELSE "writeRow"

\* exportHelper, line 162, with a direct producer: row := sheet.RowFunc().
PullFunc ==
    /\ pc = "pull"
    /\ sheets[si].kind = "func"
    /\ LET r == IF pos[si] < Len(sheets[si].script)
                THEN sheets[si].script[pos[si] + 1] ELSE ZeroRow
       IN  /\ row' = r
           /\ pulled' = [pulled EXCEPT ![si] = Append(@, r)]
           /\ pc' = AfterRow(r)
    /\ pos' = [pos EXCEPT ![si] = @ + 1]
    /\ UNCHANGED <<inputVars, si, rowID, sheetSuffix, CurrentSheet, StreamWriter,
                   result, sinkVars, chanVars>>

\* exportHelper, line 162, with an adapter: the once.Do of the pull.
PullChan ==
    /\ pc = "pull"
    /\ sheets[si].kind = "chan"
    /\ OnceDo(si)
    /\ pc' = "recv"
    /\ UNCHANGED <<inputVars, orchVars, sinkVars, pos, sent, pulled>>

\* exportHelper, line 162, with an adapter: the receive of the pull.
RecvStep ==
    /\ pc = "recv"
    /\ \E r \in Receivable(si) :
         /\ Receive(si, r)
         /\ row' = r
         /\ pulled' = [pulled EXCEPT ![si] = Append(@, r)]
         /\ pc' = AfterRow(r)
    /\ UNCHANGED <<inputVars, si, rowID, sheetSuffix, CurrentSheet, StreamWriter,
                   result, sinkVars, pos, started>>

\* exportHelper, lines 169-175: the new sheet of an overflow.
OverflowNewSheetStep ==
    /\ pc = "overflow"
    /\ sheetSuffix' = sheetSuffix + 1
    /\ rowID' = 1
    /\ LET currentSheetName == OverflowName(sheets[si].Name, sheetSuffix + 1)
       IN  \E ok \in BOOLEAN :
             /\ calls' = Append(calls, Call("NewSheet", currentSheetName, 0, ZeroRow, ok))
             /\ IF ok
                THEN /\ sheetList' = NewSheetList(currentSheetName)
                     /\ content' = NewSheetContent(currentSheetName)
                     /\ pc' = "overflowInit"
                     /\ UNCHANGED <<result, sinkFailed, err>>
                ELSE /\ Fail("NewSheet")
                     /\ UNCHANGED <<sheetList, content>>
    /\ UNCHANGED <<inputVars, si, CurrentSheet, StreamWriter, row, cursors, saved,
                   pos, chanVars, pulled>>

\* exportHelper, lines 177-180: e.CurrentSheet and initFunc of the new sheet.
OverflowInitStep ==
    /\ pc = "overflowInit"
    /\ CurrentSheet' = OverflowName(sheets[si].Name, sheetSuffix)
    /\ InitFunc(OverflowName(sheets[si].Name, sheetSuffix), "writeRow")
    /\ UNCHANGED <<inputVars, si, rowID, sheetSuffix, row, sheetList, content, saved,
                   pos, chanVars, pulled>>

\* The sink calls of writeRowFunc(e.CurrentSheet, rowID, row) of the writer in use.
RowOps ==
    IF useStreamWriter
    THEN StreamRowOps(CurrentSheet, rowID, row)
    ELSE MemRowOps(CurrentSheet, rowID, row)

\* Faulty variant of WriteRowAt: the writer's error is ignored.
WriteRowAtIgnoresError(failAt) ==
    LET ops == RowOps
        applied == IF failAt = 0 THEN Len(ops) ELSE failAt - 1
    IN  /\ calls' = Append(calls, Call("writeRow", CurrentSheet, rowID, row, failAt = 0))
        /\ IF useStreamWriter
           THEN /\ cursors' = [cursors EXCEPT
                                 ![StreamWriter] = ApplyStreamOps(@, ops, applied)]
                /\ UNCHANGED content
           ELSE /\ content' = [content EXCEPT
                                 ![CurrentSheet] = ApplyOps(@, ops, applied)]
                /\ UNCHANGED cursors
        /\ rowID' = rowID + 1
        /\ pc' = "pull"
        /\ UNCHANGED <<result, sinkFailed, err>>
\* exportHelper, lines 183-187: writeRowFunc and rowID++.  failAt is the call
\* the sink rejects, 0 when it accepts them all.
WriteRowAt(failAt) ==
    LET ops == RowOps
        applied == IF failAt = 0 THEN Len(ops) ELSE failAt - 1
    IN  /\ calls' = Append(calls, Call("writeRow", CurrentSheet, rowID, row, failAt = 0))
        /\ IF useStreamWriter
           THEN /\ cursors' = [cursors EXCEPT
                                 ![StreamWriter] = ApplyStreamOps(@, ops, applied)]
                /\ UNCHANGED content
           ELSE /\ content' = [content EXCEPT
                                 ![CurrentSheet] = ApplyOps(@, ops, applied)]
                /\ UNCHANGED cursors
        /\ IF failAt = 0
           THEN /\ rowID' = rowID + 1
                /\ pc' = "pull"
                /\ UNCHANGED <<result, sinkFailed, err>>
           ELSE /\ Fail(ops[failAt].op)
                /\ UNCHANGED rowID

WriteRowStep ==
    /\ pc = "writeRow"
    /\ \E failAt \in 0..Len(RowOps) : WriteRowAt(failAt)
    /\ UNCHANGED <<inputVars, si, sheetSuffix, CurrentSheet, StreamWriter, row,
                   sheetList, saved, pos, chanVars, pulled>>

\* Export, lines 55 and 78: the next sheet definition, or SaveAs.
NextSheetPc == IF si < Len(sheets) THEN "newSheet" ELSE "save"

\* exportHelper returned nil: exportUsingStreamWriter line 112 flushes
\* e.StreamWriter; exportUsingMemory line 149 just returns.
FinishStep ==
    /\ pc = "finish"
    /\ IF useStreamWriter
       THEN \E ok \in BOOLEAN :
              /\ calls' = Append(calls,
                                 Call("Flush", cursors[StreamWriter].sheet, 0, ZeroRow, ok))
              /\ IF ok
                 THEN /\ content' = FlushInto(content, cursors[StreamWriter])
                      /\ cursors' = [cursors EXCEPT ![StreamWriter].flushed = TRUE]
                      /\ si' = si + 1
                      /\ pc' = NextSheetPc
                      /\ UNCHANGED <<result, sinkFailed, err>>
                 ELSE /\ Fail("Flush")
                      /\ UNCHANGED <<content, cursors, si>>
       ELSE /\ si' = si + 1
            /\ pc' = NextSheetPc
            /\ UNCHANGED <<calls, content, cursors, result, sinkFailed, err>>
    /\ UNCHANGED <<inputVars, rowID, sheetSuffix, CurrentSheet, StreamWriter, row,
                   sheetList, saved, pos, chanVars, pulled>>

\* Export, line 78: return e.File.SaveAs(e.FileName).
SaveStep ==
    /\ pc = "save"
    /\ \E ok \in BOOLEAN :
         /\ calls' = Append(calls, Call("SaveAs", "", 0, ZeroRow, ok))
         /\ IF ok
            THEN /\ saved' = [done |-> TRUE, sheetList |-> sheetList, content |-> content]
                 /\ result' = "ok"
                 /\ pc' = "done"
                 /\ UNCHANGED <<sinkFailed, err>>
            ELSE /\ Fail("SaveAs")
                 /\ UNCHANGED saved
    /\ UNCHANGED <<inputVars, si, rowID, sheetSuffix, CurrentSheet, StreamWriter, row,
                   sheetList, content, cursors, pos, chanVars, pulled>>

Next ==
    \/ NewSheetStep
    \/ DeleteDefaultStep
    \/ InitStep
    \/ PullFunc
    \/ PullChan
    \/ RecvStep
    \/ OverflowNewSheetStep
    \/ OverflowInitStep
    \/ WriteRowStep
    \/ FinishStep
    \/ SaveStep
    \/ TaskSendStep
    \/ TaskReturnStep
    \/ TaskFailStep

Spec == Init /\ [][Next]_vars

(***************************************************************************)
(* The adapter alone: a consumer that keeps calling the RowDataFunc that   *)
(* UseRowChan returned, also after it has returned Row{}.                  *)
(***************************************************************************)
InitAdapter ==
    /\ useStreamWriter = FALSE
    /\ sheets \in {<<SheetData("A", "chan", s)>> : s \in Scripts1}
    /\ pc = "apull"
    /\ InitCommon

\* A call of the returned func() Row: the once.Do.
AdapterPull ==
    /\ pc = "apull"
    /\ Len(pulled[1]) < MaxPulls
    /\ OnceDo(1)
    /\ pc' = "arecv"
    /\ UNCHANGED <<inputVars, orchVars, sinkVars, pos, sent, pulled>>

\* A call of the returned func() Row: the receive and the return.
AdapterRecv ==
    /\ pc = "arecv"
    /\ \E r \in Receivable(1) :
         /\ Receive(1, r)
         /\ pulled' = [pulled EXCEPT ![1] = Append(@, r)]
    /\ pc' = "apull"
    /\ UNCHANGED <<inputVars, orchVars, sinkVars, pos, started>>

NextAdapter ==
    \/ AdapterPull
    \/ AdapterRecv
    \/ TaskSendStep
    \/ TaskReturnStep
    \/ TaskFailStep

SpecAdapter == InitAdapter /\ [][NextAdapter]_vars

(***************************************************************************)
(* Vocabulary of the properties.                                           *)
(***************************************************************************)
Ceil(n, c) == (n + c - 1) \div c

\* The name the k-th physical segment of a definition is to carry.
SegNameExpected(base, k) ==
    CASE k = 0 -> base
      [] k = 1 -> base \o "_1" [] k = 2 -> base \o "_2" [] k = 3 -> base \o "_3"
      [] k = 4 -> base \o "_4" [] k = 5 -> base \o "_5" [] k = 6 -> base \o "_6"
      [] k = 7 -> base \o "_7" [] k = 8 -> base \o "_8" [] k = 9 -> base \o "_9"

\* The rows before the first Row{} of a sequence of rows.
FirstNil(rows) ==
    IF \E k \in DOMAIN rows : rows[k].Cells.isNil
    THEN CHOOSE k \in DOMAIN rows :
           /\ rows[k].Cells.isNil
           /\ \A m \in 1..(k - 1) : ~rows[m].Cells.isNil
    ELSE Len(rows) + 1

DataPrefix(rows) == SubSeq(rows, 1, FirstNil(rows) - 1)

\* The rows definition i's producer emits: its script, or, for an adapter,
\* the rows its background task got to send.
Emitted(i) == IF sheets[i].kind = "chan" THEN sent[i] ELSE sheets[i].script

\* Every emitted data row has at least one cell.
ProperProducer(i) ==
    \A k \in DOMAIN DataPrefix(Emitted(i)) : SliceLen(DataPrefix(Emitted(i))[k].Cells) > 0

\* No overflow name of one definition is the name of another definition.
NoNameClash ==
    \A i, j \in DOMAIN sheets :
        i # j => /\ sheets[i].Name # sheets[j].Name
                 /\ \A k \in 1..MaxRows : SegNameExpected(sheets[i].Name, k) # sheets[j].Name

\* The row indices at which a sheet holds at least one cell.
RowsHeld(sh) ==
    {r \in 1..SheetMaxRows :
        \E j \in 1..MaxCells : CoordinatesToCellName(j, r) \in DOMAIN sh.cells}

\* The writeRowFunc calls made for definition i, in call order.
Writes(i) == SelectSeq(calls, LAMBDA c : c.op = "writeRow" /\ c.def = i)

\* The data rows definition i's producer has returned, in pull order.
DataPulled(i) == SelectSeq(pulled[i], LAMBDA r : ~r.Cells.isNil)

(***************************************************************************)
(* C1.  A successful Export leaves, for a producer that emits N data rows, *)
(* exactly N rows in the document: ceil(N / C) - 1 overflow sheets (none   *)
(* for N = 0) next to the base sheet, every physical sheet holding C rows  *)
(* except the last.  Stated on the saved document; it fails in streaming   *)
(* mode, where the cursor of every segment but the last is never flushed.  *)
(***************************************************************************)
C1_RowsAndOverflowSheets ==
    (result = "ok" /\ NoNameClash) =>
        \A i \in DOMAIN sheets :
            ProperProducer(i) =>
                LET base == sheets[i].Name
                    N == Len(DataPrefix(Emitted(i)))
                    segs == IF N = 0 THEN 1 ELSE Ceil(N, SheetMaxRows)
                    ovf == {k \in 1..MaxRows :
                              SegNameExpected(base, k) \in SeqToSet(saved.sheetList)}
                IN  /\ Cardinality(ovf) = segs - 1
                    /\ \A k \in 0..(segs - 1) :
                         /\ SegNameExpected(base, k) \in DOMAIN saved.content
                         /\ Cardinality(RowsHeld(saved.content[SegNameExpected(base, k)]))
                              = IF k < segs - 1 THEN SheetMaxRows
                                ELSE N - SheetMaxRows * (segs - 1)

(***************************************************************************)
(* C2.  Within one sheet definition the k-th data row the producer returns *)
(* is passed to writeRow exactly once, at row index ((k-1) mod C) + 1 of   *)
(* segment (k-1) div C, and the writeRow calls follow the producer's       *)
(* order; at most the row just pulled is still waiting to be written.      *)
(***************************************************************************)
C2_RowPlacement ==
    \A i \in DOMAIN sheets :
        LET w == Writes(i)
            d == DataPulled(i)
        IN  /\ Len(w) <= Len(d)
            /\ Len(d) <= Len(w) + 1
            /\ (result = "ok" \/ (i = si /\ pc \in {"pull", "recv", "finish"}))
                   => Len(w) = Len(d)
            /\ \A k \in 1..Len(w) :
                 /\ w[k].row = d[k]
                 /\ w[k].rowID = ((k - 1) % SheetMaxRows) + 1
                 /\ w[k].sheet = SegNameExpected(sheets[i].Name, (k - 1) \div SheetMaxRows)

\* An export succeeded whose first definition overflowed twice: row 2C+1 was
\* written at row 1 of the second overflow sheet.
C2_Witness ==
    /\ result = "ok"
    /\ Len(sheets) >= 1
    /\ Len(Writes(1)) = 2 * SheetMaxRows + 1
    /\ Writes(1)[2 * SheetMaxRows + 1].rowID = 1
    /\ Writes(1)[2 * SheetMaxRows + 1].sheet = SegNameExpected(sheets[1].Name, 2)
    /\ Writes(1)[2 * SheetMaxRows + 1].row = DataRow(1, 2 * SheetMaxRows + 1)

(***************************************************************************)
(* C3.  In streaming mode every cursor acquired by init is flushed before  *)
(* init is invoked for another physical sheet (the overflow init included) *)
(* and before the document is committed.                                   *)
(***************************************************************************)
C3_FlushBeforeNextInit ==
    /\ \A k \in 1..(Len(cursors) - 1) : cursors[k].flushed
    /\ saved.done => \A k \in DOMAIN cursors : cursors[k].flushed

(***************************************************************************)
(* C4.  Once the sink has rejected a call, Export has returned an error,   *)
(* nothing was saved, and from then on no producer is pulled, no call      *)
(* reaches the sink or a writer and the document is never committed.       *)
(***************************************************************************)
Rejected == \E k \in DOMAIN calls : ~calls[k].ok

C4_FailFast ==
    [][/\ Rejected' => (result' = "err" /\ pc' = "done" /\ ~saved'.done)
       /\ Rejected => /\ calls' = calls
                      /\ pulled' = pulled
                      /\ pos' = pos
                      /\ started' = started
                      /\ saved' = saved]_vars

\* The write of row 2 of the first of two definitions was rejected while the
\* producer still had rows to give.
C4_Witness ==
    /\ result = "err"
    /\ Len(sheets) = 2
    /\ Len(calls) > 0
    /\ LET c == calls[Len(calls)]
       IN  /\ c.op = "writeRow"
           /\ ~c.ok
           /\ c.def = 1
           /\ c.rowID = 2
           /\ Len(pulled[1]) < Len(sheets[1].script)
    /\ ~saved.done

(***************************************************************************)
(* C5.  A producer failure is surfaced by Export as an error: the export   *)
(* does not take it for the end of the stream and does not commit.         *)
(***************************************************************************)
C5_ProducerFailureSurfaced ==
    \A i \in DOMAIN sheets :
        task[i].failed =>
            /\ result # "ok"
            /\ ~saved.done

(***************************************************************************)
(* C6.  A row with no cells, nil or of length 0, ends the writing of its   *)
(* sheet definition: it is never passed to writeRow and it is the last row *)
(* pulled from that producer.                                              *)
(***************************************************************************)
C6_SentinelExact ==
    /\ \A k \in DOMAIN calls :
         calls[k].op = "writeRow" => SliceLen(calls[k].row.Cells) > 0
    /\ \A i \in DOMAIN sheets :
         \A k \in 1..(Len(pulled[i]) - 1) : SliceLen(pulled[i][k].Cells) > 0

(***************************************************************************)
(* C7.  The rows successive pulls of an adapter return are the rows its    *)
(* background task sent, in send order, none lost, doubled or reordered,   *)
(* and Row{} is returned only once the channel is closed and every sent    *)
(* row was delivered.                                                      *)
(***************************************************************************)
C7_AdapterFifo ==
    \A i \in DOMAIN sheets :
        sheets[i].kind = "chan" =>
            LET n == task[i].idx - 1
                p == pulled[i]
            IN  /\ n <= Len(sheets[i].script)
                /\ sent[i] = SubSeq(sheets[i].script, 1, n)
                /\ Len(p) >= n
                /\ \A k \in 1..Len(p) :
                     p[k] = IF k <= n THEN sheets[i].script[k] ELSE ZeroRow
                /\ Len(p) > n => (ch[i].closed /\ ch[i].offer = <<>>)

\* Two rows were delivered in order and the pull after them returned Row{}
\* from the closed channel.
C7_Witness ==
    /\ pc = "apull"
    /\ Len(sheets[1].script) = 2
    /\ pulled[1] = <<DataRow(1, 1), DataRow(1, 2), ZeroRow>>
    /\ ch[1].closed
    /\ ~task[1].failed

(***************************************************************************)
(* C8.  The background task of an adapter is not started before the first  *)
(* pull, is started by the first pull, and is started at most once however *)
(* many pulls follow.                                                      *)
(***************************************************************************)
C8_StartedOnce ==
    \A i \in DOMAIN sheets :
        /\ started[i] <= 1
        /\ started[i] = 0 <=> (pulled[i] = <<>> /\ pc = "apull")
        /\ task[i].pc = "none" <=> started[i] = 0

\* Pulls went on after the channel was closed: the last two returned Row{}.
C8_Witness ==
    /\ started[1] = 1
    /\ Len(pulled[1]) >= 3
    /\ pulled[1][Len(pulled[1])] = ZeroRow
    /\ pulled[1][Len(pulled[1]) - 1] = ZeroRow
    /\ pulled[1][1] # ZeroRow
    /\ ch[1].closed

(***************************************************************************)
(* C9.  For a definition named B the overflow sheets are created as B_1,   *)
(* B_2, ... in this order, the k-th overflow creating B_k, and after the   *)
(* k-th overflow rows are written to B_k until the next overflow.          *)
(***************************************************************************)
SheetCalls(i) ==
    SelectSeq(calls, LAMBDA c : c.def = i /\ c.op \in {"NewSheet", "writeRow"})

NewSheetsUpTo(L, p) == Cardinality({q \in 1..p : L[q].op = "NewSheet"})

C9_OverflowNaming ==
    \A i \in DOMAIN sheets :
        LET L == SheetCalls(i)
        IN  /\ Len(L) > 0 => L[1].op = "NewSheet"
            /\ \A p \in DOMAIN L :
                 L[p].sheet = SegNameExpected(sheets[i].Name, NewSheetsUpTo(L, p) - 1)

\* A second overflow created B_2 and a row was written to it.
C9_Witness ==
    \E k \in DOMAIN calls :
        /\ calls[k].op = "NewSheet"
        /\ calls[k].ok
        /\ calls[k].sheet = SegNameExpected(sheets[1].Name, 2)
        /\ \E m \in DOMAIN calls :
             /\ m > k
             /\ calls[m].op = "writeRow"
             /\ calls[m].ok
             /\ calls[m].sheet = SegNameExpected(sheets[1].Name, 2)

(***************************************************************************)
(* C10.  Capacity boundary of a successful export: C rows give one sheet   *)
(* named baseName holding rows 1..C and no baseName_1; C + 1 rows give     *)
(* baseName holding rows 1..C and baseName_1 holding row C + 1 at row 1;   *)
(* no overflow sheet is empty.  Stated on the saved document; it fails in  *)
(* streaming mode because the base sheet's cursor is never flushed.        *)
(***************************************************************************)
C10_CapacityBoundary ==
    (result = "ok" /\ NoNameClash) =>
        \A i \in DOMAIN sheets :
            ProperProducer(i) =>
                LET base == sheets[i].Name
                    over == SegNameExpected(base, 1)
                    N == Len(DataPrefix(Emitted(i)))
                IN  /\ N = SheetMaxRows =>
                         /\ over \notin SeqToSet(saved.sheetList)
                         /\ RowsHeld(saved.content[base]) = 1..SheetMaxRows
                    /\ N = SheetMaxRows + 1 =>
                         /\ RowsHeld(saved.content[base]) = 1..SheetMaxRows
                         /\ over \in DOMAIN saved.content
                         /\ RowsHeld(saved.content[over]) = {1}
                         /\ saved.content[over].cells[CoordinatesToCellName(1, 1)]
                              = DataPrefix(Emitted(i))[N].Cells.elems[1]
                    /\ \A k \in 1..MaxRows :
                         SegNameExpected(base, k) \in DOMAIN saved.content
                             => RowsHeld(saved.content[SegNameExpected(base, k)]) # {}

(***************************************************************************)
(* C11.  Buffered and Streaming, given the same sheet definitions and the  *)
(* same rows, end a successful Export with the same physical sheets and,   *)
(* per sheet, equal cell values, formulas and merge regions.  The document *)
(* the Buffered variant builds from a run's rows is the replay of the      *)
(* run's accepted NewSheet, DeleteSheet and writeRow calls with the memory *)
(* writer (by C2 and C9 these calls do not depend on the variant); the     *)
(* saved document of either variant is to equal it.  It fails in streaming *)
(* mode once an overflow occurs: the replaced cursor is never flushed.     *)
(***************************************************************************)
BufferedStep(cont, c) ==
    IF ~c.ok THEN cont
    ELSE CASE c.op = "NewSheet" ->
                IF c.sheet \in DOMAIN cont THEN cont
                ELSE [n \in DOMAIN cont \cup {c.sheet} |->
                        IF n = c.sheet THEN EmptySheet ELSE cont[n]]
           [] c.op = "DeleteSheet" -> [n \in DOMAIN cont \ {c.sheet} |-> cont[n]]
           [] c.op = "writeRow" ->
                LET ops == MemRowOps(c.sheet, c.rowID, c.row)
                IN  [cont EXCEPT ![c.sheet] = ApplyOps(@, ops, Len(ops))]
           [] OTHER -> cont

RECURSIVE BufferedReplay(_, _)
BufferedReplay(cs, n) ==
    IF n = 0 THEN [s \in {"Sheet1"} |-> EmptySheet]
    ELSE BufferedStep(BufferedReplay(cs, n - 1), cs[n])

C11_VariantsAgree ==
    result = "ok" => saved.content = BufferedReplay(calls, Len(calls))

(***************************************************************************)
(* C12.  The default sheet "Sheet1" is deleted at most once in an Export,  *)
(* only while the first sheet definition is set up and only when the       *)
(* document then holds at least two sheets; it is deleted whenever the     *)
(* first definition carries another name.  With two definitions of which   *)
(* the first yields no row, the saved document has a sheet for each, the   *)
(* first without cells, and no "Sheet1".                                   *)
(***************************************************************************)
DeleteCalls == {k \in DOMAIN calls : calls[k].op = "DeleteSheet"}

C12_PlaceholderDeletedOnce ==
    /\ Cardinality(DeleteCalls) <= 1
    /\ \A k \in DeleteCalls :
         /\ calls[k].def = 1
         /\ calls[k].sheet = "Sheet1"
         /\ Cardinality(DOMAIN BufferedReplay(calls, k - 1)) >= 2
         /\ ~\E m \in 1..(k - 1) : calls[m].op \in {"writeRow", "NewStreamWriter"}
    /\ (result = "ok" /\ Len(sheets) >= 1 /\ sheets[1].Name # "Sheet1")
           => (Cardinality(DeleteCalls) = 1 /\ "Sheet1" \notin SeqToSet(saved.sheetList))
    /\ (result = "ok" /\ Len(sheets) = 2 /\ DataPulled(1) = <<>>)
           => /\ saved.sheetList = <<sheets[1].Name, sheets[2].Name>>
              /\ saved.content[sheets[1].Name].cells = NoCells

\* Two definitions, the first without rows, were exported and saved.
C12_Witness ==
    /\ result = "ok"
    /\ Len(sheets) = 2
    /\ pulled[1] = <<ZeroRow>>
    /\ Len(DataPulled(2)) = 1
    /\ saved.sheetList = <<"A", "B">>
    /\ Cardinality(DeleteCalls) = 1

(***************************************************************************)
(* C13.  SaveAs is called at most once and as the last call of Export,     *)
(* only when every definition's producer has reached the end of its        *)
(* stream, every row it returned was accepted by writeRow and every cursor *)
(* opened for a physical sheet was flushed; Export returns ok exactly when *)
(* that SaveAs was accepted, and at most one call of an Export is rejected *)
(* and reported.                                                           *)
(***************************************************************************)
SaveCalls == {k \in DOMAIN calls : calls[k].op = "SaveAs"}

EndOfStream(i) == pulled[i] # <<>> /\ pulled[i][Len(pulled[i])].Cells.isNil

FullyWritten(i) ==
    /\ EndOfStream(i)
    /\ Len(Writes(i)) = Len(DataPulled(i))
    /\ \A k \in 1..Len(Writes(i)) : Writes(i)[k].ok

C13_CommitOnceAtEnd ==
    /\ Cardinality(SaveCalls) <= 1
    /\ \A k \in SaveCalls :
         /\ k = Len(calls)
         /\ \A i \in DOMAIN sheets : FullyWritten(i)
         /\ \A c \in DOMAIN cursors : cursors[c].flushed
    /\ result = "ok" <=> \E k \in SaveCalls : calls[k].ok
    /\ result = "ok" <=> saved.done
    /\ Cardinality({k \in DOMAIN calls : ~calls[k].ok}) <= 1
    /\ result = "err" <=> Rejected

(***************************************************************************)
(* C14.  Sheet definitions are processed one after the other in list       *)
(* order.  Until Export has moved on to definition i, its producer is not  *)
(* pulled, its background task is not started and no call is made for it;  *)
(* Export moves on from a definition only when its producer has reached    *)
(* the end of its stream, every row was written and, in streaming mode,    *)
(* the Flush was accepted.  The calls made for different definitions do    *)
(* not interleave.                                                         *)
(***************************************************************************)
CallsFor(i) == {k \in DOMAIN calls : calls[k].def = i}

C14_DefinitionsInOrder ==
    /\ \A i \in DOMAIN sheets :
         /\ i > si => /\ pulled[i] = <<>>
                      /\ pos[i] = 0
                      /\ started[i] = 0
                      /\ task[i].pc = "none"
                      /\ CallsFor(i) = {}
         /\ i < si => /\ FullyWritten(i)
                      /\ useStreamWriter =>
                           \E k \in CallsFor(i) : calls[k].op = "Flush" /\ calls[k].ok
    /\ \A k, m \in DOMAIN calls : k < m => calls[k].def <= calls[m].def

\* The second of two channel-backed definitions is being written after the
\* first one delivered a row and ended.
C14_Witness ==
    /\ Len(sheets) = 2
    /\ sheets[1].kind = "chan"
    /\ sheets[2].kind = "chan"
    /\ si = 2
    /\ Len(Writes(1)) = 1
    /\ EndOfStream(1)
    /\ started[2] = 1
    /\ Len(Writes(2)) = 1

(***************************************************************************)
(* C15.  When a sink operation on a row is rejected, the error Export      *)
(* returns names the physical sheet and the row index of that row.         *)
(***************************************************************************)
C15_ErrorNamesSheetAndRow ==
    (result = "err" /\ calls # <<>>) =>
        LET c == calls[Len(calls)]
        IN  (c.op = "writeRow" /\ ~c.ok) =>
                /\ \E p \in DOMAIN err : err[p] = c.sheet
                /\ \E p \in DOMAIN err : err[p] = Itoa(c.rowID)

(***************************************************************************)
(* Scheduling.  Export runs on the caller's goroutine and every call into  *)
(* the sink returns, so a step of Export that can be taken is taken.  The  *)
(* background task of an adapter runs the caller's callback: whether it    *)
(* goes on is the hypothesis TaskFair, not a property of the program.      *)
(***************************************************************************)
OrchNext ==
    \/ NewSheetStep
    \/ DeleteDefaultStep
    \/ InitStep
    \/ PullFunc
    \/ PullChan
    \/ RecvStep
    \/ OverflowNewSheetStep
    \/ OverflowInitStep
    \/ WriteRowStep
    \/ FinishStep
    \/ SaveStep

TaskNext == TaskSendStep \/ TaskReturnStep \/ TaskFailStep

SpecFair == Spec /\ WF_vars(OrchNext)

TaskFair == WF_vars(TaskNext)

(***************************************************************************)
(* C16.  If every background task goes on until its callback returns,      *)
(* Export eventually returns.  In any case Export either returns or stays  *)
(* for ever in the receive of an adapter whose task neither sends a row    *)
(* nor returns.                                                            *)
(***************************************************************************)
Returned == pc = "done"

BlockedInPull ==
    /\ pc = "recv"
    /\ sheets[si].kind = "chan"
    /\ task[si].pc = "run"
    /\ ch[si].offer = <<>>
    /\ ~ch[si].closed

C16_ExportReturns ==
    /\ TaskFair => <>Returned
    /\ <>Returned \/ <>[]BlockedInPull

\* Export returned after an adapter delivered rows past an overflow and a
\* second definition was exported.
C16_Witness ==
    /\ Returned
    /\ result = "ok"
    /\ Len(sheets) = 2
    /\ sheets[1].kind = "chan"
    /\ Len(DataPulled(1)) > SheetMaxRows
    /\ EndOfStream(2)

(***************************************************************************)
(* C17.  Export pulls the next row only when writeRow has returned for the *)
(* row pulled before.  The background task of an adapter waits in each     *)
(* send until Export receives, so the rows whose send has completed are    *)
(* never more than one ahead of the rows writeRow has accepted.            *)
(***************************************************************************)
Accepted(i) == SelectSeq(Writes(i), LAMBDA c : c.ok)

C17_Pacing ==
    \A i \in DOMAIN sheets :
        /\ Len(DataPulled(i)) <= Len(Writes(i)) + 1
        /\ (i = si /\ pc \in {"pull", "recv"}) => Len(Writes(i)) = Len(DataPulled(i))
        /\ sheets[i].kind = "chan" =>
             /\ Len(sent[i]) <= Len(Accepted(i)) + 1
             /\ Len(sent[i]) = Len(pulled[i]) \/ (ch[i].closed /\ ch[i].offer = <<>>)
             /\ task[i].pc = "blocked" <=> ch[i].offer # <<>>
             /\ Len(ch[i].offer) <= 1

\* Export is writing the second row of an adapter while the task already
\* waits in the send of the third.
C17_Witness ==
    /\ Len(sheets) >= 1
    /\ sheets[1].kind = "chan"
    /\ si = 1
    /\ pc = "writeRow"
    /\ Len(sent[1]) = 2
    /\ Len(Accepted(1)) = 1
    /\ task[1].pc = "blocked"
    /\ task[1].idx = 3

(***************************************************************************)
(* C18.  A definition whose producer returns Row{} on its first pull gets  *)
(* one physical sheet, of the definition's name: NewSheet is called for    *)
(* it, init runs, writeRow is never called, no overflow sheet is created,  *)
(* the producer is not pulled again, in streaming mode the sheet's cursor  *)
(* is flushed, and Export goes on to the next definition or to the save.   *)
(* The saved sheet of that name has no cell.                               *)
(***************************************************************************)
EmptyProducer(i) == pulled[i] # <<>> /\ pulled[i][1].Cells.isNil

OwnCalls(i) ==
    SelectSeq(calls, LAMBDA c : c.def = i /\ c.op # "DeleteSheet")

OpsAndSheets(cs) == [k \in DOMAIN cs |-> <<cs[k].op, cs[k].sheet>>]

C18_EmptyProducer ==
    \A i \in DOMAIN sheets :
        EmptyProducer(i) =>
            LET base == sheets[i].Name
                cs == OwnCalls(i)
                expected == IF useStreamWriter
                            THEN <<<<"NewSheet", base>>, <<"NewStreamWriter", base>>,
                                   <<"Flush", base>>>>
                            ELSE <<<<"NewSheet", base>>>>
                n == Len(cs)
            IN  /\ Len(pulled[i]) = 1
                /\ n <= Len(expected)
                /\ OpsAndSheets(cs) = SubSeq(expected, 1, n)
                /\ \A k \in 1..(n - 1) : cs[k].ok
                /\ n >= Len(expected) - 1
                /\ n < Len(expected) => (si = i /\ pc = "finish")
                /\ (n = Len(expected) /\ cs[n].ok)
                       => (si > i \/ (~useStreamWriter /\ si = i /\ pc = "finish"))
                /\ (n = Len(expected) /\ ~cs[n].ok) => (si = i /\ result = "err")
                /\ result = "ok" => /\ base \in DOMAIN saved.content
                                    /\ saved.content[base] = EmptySheet

(***************************************************************************)
(* C19.  The buffered writeRow(sheet, r, row) asks the sink, for the j-th  *)
(* cell of the row in increasing j, to set the value at column j of row r, *)
(* then the style if the handle is > 0, then the formula if it is not      *)
(* empty, and after all cells to merge each span of the row, in order; it  *)
(* asks nothing for the row's layout options.  The first call the sink     *)
(* rejects ends the row: the later calls are not made and the sink's error *)
(* is the error returned.                                                  *)
(***************************************************************************)
Pos(ops, kind, cellName) ==
    {p \in DOMAIN ops : ops[p].op = kind /\ ops[p].cell = cellName}

OpsAsClaimed(ops, sheetName, r, rw) ==
    LET cells == rw.Cells.elems
        merges == rw.MergeCells.elems
        At(j) == CoordinatesToCellName(j, r)
        mergeOps == SelectSeq(ops, LAMBDA o : o.op = "MergeCell")
    IN  /\ \A p \in DOMAIN ops :
             /\ ops[p].sheet = sheetName
             /\ ops[p].op \in {"SetCellValue", "SetCellStyle", "SetCellFormula", "MergeCell"}
             /\ ops[p].op # "MergeCell" => \E j \in DOMAIN cells : ops[p].cell = At(j)
        /\ \A j \in DOMAIN cells :
             LET v == Pos(ops, "SetCellValue", At(j))
                 st == Pos(ops, "SetCellStyle", At(j))
                 f == Pos(ops, "SetCellFormula", At(j))
             IN  /\ Cardinality(v) = 1
                 /\ \A p \in v : ops[p].arg = cells[j].Value
                 /\ Cardinality(st) = IF cells[j].StyleID > 0 THEN 1 ELSE 0
                 /\ \A p \in st : ops[p].arg = cells[j].StyleID
                 /\ Cardinality(f) = IF cells[j].Formula # "" THEN 1 ELSE 0
                 /\ \A p \in f : ops[p].arg = cells[j].Formula
                 /\ \A p \in v, q \in st \cup f : p < q
                 /\ \A p \in st, q \in f : p < q
                 /\ \A k \in DOMAIN cells :
                      j < k => \A p \in v \cup st \cup f :
                                 \A q \in Pos(ops, "SetCellValue", At(k)) : p < q
        /\ Len(mergeOps) = Len(merges)
        /\ \A k \in DOMAIN merges : mergeOps[k].arg = merges[k]
        /\ \A p, q \in DOMAIN ops :
             (ops[p].op = "MergeCell" /\ ops[q].op # "MergeCell") => q < p

C19_BufferedWriteRow ==
    [][(~useStreamWriter /\ pc = "writeRow" /\ calls' # calls) =>
          LET c == calls'[Len(calls')]
              ops == MemRowOps(c.sheet, c.rowID, c.row)
          IN  /\ c.op = "writeRow"
              /\ c.sheet = CurrentSheet /\ c.rowID = rowID /\ c.row = row
              /\ OpsAsClaimed(ops, c.sheet, c.rowID, c.row)
              /\ sheetList' = sheetList
              /\ cursors' = cursors
              /\ IF c.ok
                 THEN /\ content' = [content EXCEPT
                                       ![c.sheet] = ApplyOps(@, ops, Len(ops))]
                      /\ result' = result
                      /\ err' = <<>>
                 ELSE \E f \in DOMAIN ops :
                        /\ content' = [content EXCEPT
                                         ![c.sheet] = ApplyOps(@, ops, f - 1)]
                        /\ result' = "err"
                        /\ err' = SinkError(ops[f].op)
                        /\ pc' = "done"]_vars

\* The buffered writer was writing FormulaRow to row 1 of sheet A when the
\* sink rejected the formula of its second cell: the first cell has its value
\* and style, the second its value only, and no span was merged.
C19_Witness ==
    /\ ~useStreamWriter
    /\ result = "err"
    /\ sinkFailed = "SetCellFormula"
    /\ calls # <<>>
    /\ calls[Len(calls)].row = FormulaRow
    /\ calls[Len(calls)].rowID = 1
    /\ "A" \in DOMAIN content
    /\ DOMAIN content["A"].cells = {"A1", "B1"}
    /\ content["A"].cells["A1"] = [StyleID |-> 1, Formula |-> "", Value |-> 1]
    /\ content["A"].cells["B1"] = [StyleID |-> 0, Formula |-> "", Value |-> 2]
    /\ content["A"].merges = <<>>

(***************************************************************************)
(* C20.  With pairwise distinct definition names every segment of the      *)
(* export is a sheet of its own: no sheet is created twice, rows written   *)
(* to one sheet name belong to one definition, and the name of an overflow *)
(* sheet is not the name of another definition.                            *)
(***************************************************************************)
DistinctNames ==
    \A i, j \in DOMAIN sheets : i # j => sheets[i].Name # sheets[j].Name

C20_SegmentsDistinct ==
    DistinctNames =>
        /\ \A k, m \in DOMAIN calls :
             (/\ k < m
              /\ calls[k].op = "NewSheet" /\ calls[k].ok
              /\ calls[m].op = "NewSheet" /\ calls[m].ok)
                 => calls[k].sheet # calls[m].sheet
        /\ \A k, m \in DOMAIN calls :
             (/\ calls[k].op = "writeRow"
              /\ calls[m].op = "writeRow"
              /\ calls[k].sheet = calls[m].sheet)
                 => calls[k].def = calls[m].def
        /\ \A k \in DOMAIN calls :
             (/\ calls[k].op = "NewSheet" /\ calls[k].ok
              /\ calls[k].sheet # sheets[calls[k].def].Name)
                 => \A j \in DOMAIN sheets : calls[k].sheet # sheets[j].Name

(***************************************************************************)
(* C21.  When Export has returned, no background task of an adapter waits  *)
(* in a send on its channel: nothing receives from that channel any more,  *)
(* so such a task would wait for ever.  A task Export has left behind, for *)
(* a definition it has finished, does not wait in a send either.           *)
(***************************************************************************)
LeftBehind(i) == Returned \/ i < si

C21_NoTaskLeftInSend ==
    \A i \in DOMAIN sheets :
        (sheets[i].kind = "chan" /\ LeftBehind(i)) => task[i].pc # "blocked"

(***************************************************************************)
(* C22.  Export assigns e.CurrentSheet and e.StreamWriter only while no    *)
(* background task of an adapter is running, the overflow included, and    *)
(* when a task is started the two fields are those of its definition's     *)
(* own sheet.                                                              *)
(***************************************************************************)
TaskRunning(i) == task[i].pc \in {"run", "blocked"}

C22_FieldsSetWithNoTaskRunning ==
    [][/\ (CurrentSheet' # CurrentSheet \/ StreamWriter' # StreamWriter)
            => \A i \in DOMAIN sheets : ~TaskRunning(i)
       /\ \A i \in DOMAIN sheets :
            (started[i] = 0 /\ started'[i] = 1)
                => /\ CurrentSheet = sheets[i].Name
                   /\ useStreamWriter =>
                        /\ StreamWriter \in DOMAIN cursors
                        /\ cursors[StreamWriter].sheet = sheets[i].Name
                        /\ cursors[StreamWriter].rows = {}]_vars

(***************************************************************************)
(* C23.  At every writeRow call the row index is within 1..SheetMaxRows,   *)
(* the sheet written is e.CurrentSheet, which is the definition's name     *)
(* while the overflow counter is 0 and name_k when it is k, that sheet is  *)
(* in the document and was initialized (in streaming mode e.StreamWriter   *)
(* is an unflushed cursor of it), and the row index is 1 for the first     *)
(* writeRow call on a physical sheet and one more than that of the call    *)
(* before on the same sheet otherwise.                                     *)
(***************************************************************************)
WritesOn(sheetName) ==
    SelectSeq(calls, LAMBDA c : c.op = "writeRow" /\ c.sheet = sheetName)

C23_WriteLoopInvariant ==
    [][(pc = "writeRow" /\ calls' # calls) =>
          LET c == calls'[Len(calls')]
              before == WritesOn(c.sheet)
          IN  /\ c.op = "writeRow"
              /\ c.rowID = rowID
              /\ 1 <= c.rowID /\ c.rowID <= SheetMaxRows
              /\ c.sheet = CurrentSheet
              /\ CurrentSheet = SegNameExpected(sheets[si].Name, sheetSuffix)
              /\ CurrentSheet \in SeqToSet(sheetList)
              /\ CurrentSheet \in DOMAIN content
              /\ useStreamWriter =>
                   /\ StreamWriter \in DOMAIN cursors
                   /\ cursors[StreamWriter].sheet = CurrentSheet
                   /\ ~cursors[StreamWriter].flushed
              /\ c.rowID = IF before = <<>> THEN 1
                           ELSE before[Len(before)].rowID + 1]_vars

(***************************************************************************)
(* C24.  Once a pull of an adapter has returned Row{} from the closed      *)
(* channel, the task has returned and stays so, it is not started again,   *)
(* no row is delivered any more, a pull that has reached the receive can   *)
(* return, and every later pull returns Row{}.                             *)
(***************************************************************************)
StreamEnded(i) == Len(pulled[i]) > Len(sent[i])

C24_EndOfStreamStable ==
    /\ [](StreamEnded(1) =>
            /\ ch[1].closed /\ ch[1].offer = <<>>
            /\ task[1].pc = "done"
            /\ started[1] = 1
            /\ pc = "arecv" => ENABLED AdapterRecv
            /\ \A k \in (Len(sent[1]) + 1)..Len(pulled[1]) : pulled[1][k] = ZeroRow)
    /\ [][StreamEnded(1) =>
            /\ started' = started
            /\ task' = task
            /\ ch' = ch
            /\ sent' = sent
            /\ pulled' # pulled =>
                 pulled' = [pulled EXCEPT ![1] = Append(@, ZeroRow)]]_vars

\* After the one row of the callback, three pulls in a row returned Row{}.
C24_Witness ==
    /\ pc = "apull"
    /\ sent[1] = <<DataRow(1, 1)>>
    /\ Len(pulled[1]) = MaxPulls
    /\ \A k \in 2..MaxPulls : pulled[1][k] = ZeroRow
    /\ started[1] = 1
    /\ ~task[1].failed

====
